---- MODULE Spec2Model ----
(***************************************************************************)
(* The agricultural-grant research route: POST /api/research/grants opens  *)
(* an event stream and runs, in a detached task, query generation, one     *)
(* search-then-extract cycle per query, aggregation and report synthesis.  *)
(* The two external services (the language model and the search service)   *)
(* and the client reading the stream are the environment: every outcome    *)
(* they can produce is a nondeterministic choice.                          *)
(***************************************************************************)
EXTENDS Integers, Sequences, FiniteSets, TLC

(* ------------------------------ bounds --------------------------------- *)
\* most queries the model proposes in one generateObject response
MaxModelQueries == 2
\* most page results one search returns (the code asks for limit 2 / 5)
MaxPages == 1
\* most grants one extraction response carries
MaxGrants == 1
\* most lines of the reportMarkdown the model returns
MaxMdLines == 2
\* most progress frames in the stream the results page reads
MaxProgressFrames == 1
\* most page results of one search response given to the extractor
MaxTexts == 3
\* most grant opportunities in the report the results page sorts
MaxOpportunities == 3
\* most grants extracted over all queries of one research run
MaxExtracted == 4

(* ------------------------- program constants --------------------------- *)
\* numQueries = 5 in the destructuring of the request body
DefaultNumQueries == 5

\* grants.slice(0, 3) in the template variant of writeGrantReport
TemplateLimit == 3

NoGrantsReport == "No grants found that match your criteria."
AuthError == "API keys are required but not provided"

(* ------------------------------ domains -------------------------------- *)
GrantNames == {"A", "B"}
Urls == {"u1", "u2"}
NullUrl == "null"
\* markdown of a page result, by its length; 0 is a page with no text
MarkdownLens == {0, 1}
Pages == [url : Urls \cup {NullUrl}, markdown : MarkdownLens]
\* the numQueries values a request body carries explicitly: the route does
\* not validate the field, so a negative number and zero are among them
NumQueriesValues == {-1, 0, 1, 2}

Min(a, b) == IF a < b THEN a ELSE b
Max(a, b) == IF a > b THEN a ELSE b

SeqsUpTo(S, n) == UNION {[1..k -> S] : k \in 0..n}

VARIABLES
    pc,             \* position of the handler / detached task
    req,            \* the request being handled, with what its environment
                    \* holds: body, cookies, feature flag, createModel
    status,         \* HTTP status of the response returned (0: none yet)
    body,           \* error body of a non-streamed response ("" : none)
    numQueries,     \* numQueries after the destructuring default
    serpQueries,    \* what generateGrantQueries returned
    idx,            \* position of the for..of loop in serpQueries
    searchResults,  \* searchResults.data of the query being processed
    allGrants,      \* accumulator of researchAgricultureGrants
    allVisitedUrls, \* accumulator of researchAgricultureGrants
    result,         \* grantResearchResult
    trace,          \* writes, closes and external calls, in program order
    returned,       \* what each processGrantResults call returned, in order
    broken,         \* the client cancelled the stream: writes reject
    conc,           \* two requests in flight at once: what each invocation
                    \* of the handler holds, see the section on concurrency
    tmpl,           \* one call of the template variant of writeGrantReport,
                    \* see the section on the template variant
    client,         \* the browser: the form, local storage and the results
                    \* page reading the stream, see the section on the client
    sorter,         \* the sort effect of the structured results page
    extractor,      \* the contents processGrantResults submits to the model
    aggregator      \* the grants researchAgricultureGrants deduplicates

\* the variables of the browser side and of the two pure computations
clientVars == <<client, sorter, extractor, aggregator>>

vars == <<pc, req, status, body, numQueries, serpQueries, idx, searchResults,
          allGrants, allVisitedUrls, result, trace, returned, broken, conc,
          tmpl, client, sorter, extractor,
          aggregator>>

NoResult == [grants |-> <<>>, visitedUrls |-> <<>>]

\* a request and its environment, as far as the handler looks at them:
\* parsed - req.json() resolves; hasQuery - the body has a non-empty query;
\* hasNumQueries, numQueries - the numQueries field of the body;
\* enableApiKeys - process.env.NEXT_PUBLIC_ENABLE_API_KEYS === "true";
\* openaiKey, firecrawlKey - the cookie is present and non-empty;
\* modelCreated - createModel returns without throwing
Requests ==
    [parsed : BOOLEAN, hasQuery : BOOLEAN, hasNumQueries : BOOLEAN,
     numQueries : NumQueriesValues, enableApiKeys : BOOLEAN,
     openaiKey : BOOLEAN, firecrawlKey : BOOLEAN, modelCreated : BOOLEAN]

\* no request at hand: none has arrived yet, or its fields have been handed
\* to the detached task
NoRequest ==
    [parsed |-> FALSE, hasQuery |-> FALSE, hasNumQueries |-> FALSE,
     numQueries |-> 0, enableApiKeys |-> FALSE, openaiKey |-> FALSE,
     firecrawlKey |-> FALSE, modelCreated |-> FALSE]

(* ------------------------------ events --------------------------------- *)
\* one entry of the trace: ev is "write" (a frame handed to the writer),
\* "close", "start" (an external service call is issued) or "call" (that
\* call has settled); ok tells whether the awaited promise resolved, as the
\* awaiting code sees it
Event(ev, type, msg, q, ok) ==
    [ev |-> ev, type |-> type, msg |-> msg, q |-> q, ok |-> ok]

\* await writer.write(encoder.encode(`data: ${JSON.stringify(frame)}\n\n`));
\* the promise rejects once the readable side has been cancelled
WriteFrame(tr, type, msg) ==
    Append(tr, Event("write", type, msg, 0, ~broken))

\* faulty variant: the frame is kept in a buffer instead of being written
onProgress_heldBack(tr, msg, q) == tr

\* faulty variant: no try/catch, a rejected write is thrown to the caller
onProgress_throws(tr, msg, q) ==
    Append(tr, Event("write", "progress", msg, q, ~broken))

\* onProgress: try { await writer.write(progress frame) } catch { log };
\* whatever the write does, the caller sees onProgress resolve. msg is the
\* kind of the message, q the query its text names (0: none)
onProgress(tr, msg, q) ==
    Append(tr, Event("write", "progress", msg, q, TRUE))

\* writer.close() at the named site; rejects when the writer is already
\* closed or errored
CloseWriter(tr, site) ==
    Append(tr, Event("close", site, "", 0,
        ~broken /\ ~\E i \in 1..Len(tr) : tr[i].ev = "close"))

\* faulty variant: the call is issued and its promise is not awaited
Call_notAwaited(tr, type, msg, q, ok) ==
    Append(tr, Event("start", type, msg, q, TRUE))

\* await of an external call (generateObject or firecrawl.search): the call
\* is issued ("start") and the caller goes on only when its promise has
\* settled ("call", with the outcome)
Call(tr, type, msg, q, ok) ==
    Append(Append(tr, Event("start", type, msg, q, TRUE)),
           Event("call", type, msg, q, ok))

\* faulty variant: the catch block only logs, no error frame is written
CatchFinally_silent(tr) == CloseWriter(tr, "finally")

\* catch (e) { await writer.write({error}) } finally { await writer.close() }
CatchFinally(tr) == CloseWriter(WriteFrame(tr, "error", "research"), "finally")

\* faulty variant: the error frame is written in the finally block
Finally_writesError(tr) == CloseWriter(WriteFrame(tr, "error", "research"), "finally")

\* the finally block alone, after the try block completed or returned
Finally(tr) == CloseWriter(tr, "finally")

(* --------------------------- pure functions ---------------------------- *)
\* Array.prototype.slice(0, end): a negative end counts from the back
Slice(s, end) ==
    LET final == IF end < 0 THEN Max(Len(s) + end, 0) ELSE Min(end, Len(s))
    IN  SubSeq(s, 1, final)

\* res.object.queries.slice(0, numQueries).map(q => q.query)
TruncateQueries(queries, n) == Slice(queries, n)

\* faulty variant: every set appends an entry, also for a key already present
MapSet_append(entries, g) == Append(entries, g)

\* faulty variant: a key already present is deleted and set again, which
\* moves it behind the other keys
MapSet_moveToEnd(entries, g) ==
    Append(SelectSeq(entries, LAMBDA e : e.name # g.name), g)

\* faulty variant: a key already present keeps its old value
MapSet_keepFirst(entries, g) ==
    IF \E i \in 1..Len(entries) : entries[i].name = g.name
    THEN entries
    ELSE Append(entries, g)

\* Map.prototype.set on the entry list of a Map: an existing key keeps its
\* position and takes the new value, a new key is appended
MapSet(entries, g) ==
    IF \E i \in 1..Len(entries) : entries[i].name = g.name
    THEN [i \in 1..Len(entries) |->
             IF entries[i].name = g.name THEN g ELSE entries[i]]
    ELSE Append(entries, g)

RECURSIVE MapOf(_)
\* new Map(allGrants.map(grant => [grant.name, grant]))
MapOf(grants) ==
    IF grants = <<>> THEN <<>>
    ELSE MapSet(MapOf(SubSeq(grants, 1, Len(grants) - 1)), grants[Len(grants)])

RECURSIVE FirstSeenOf(_)
\* the grants whose name did not occur earlier in the list
FirstSeenOf(grants) ==
    IF grants = <<>> THEN <<>>
    ELSE LET rest == FirstSeenOf(SubSeq(grants, 1, Len(grants) - 1))
             g == grants[Len(grants)]
         IN  IF \E i \in 1..Len(rest) : rest[i].name = g.name
             THEN rest
             ELSE Append(rest, g)

\* faulty variant: deduplication that keeps the first occurrence of a name
uniqueGrants_firstSeen(grants) == FirstSeenOf(grants)

\* Array.from(new Map(...).values())
uniqueGrants(grants) == MapOf(grants)

\* Set.prototype.add on the insertion-ordered element list of a Set
SetAdd(elems, u) ==
    IF \E i \in 1..Len(elems) : elems[i] = u THEN elems ELSE Append(elems, u)

RECURSIVE SetOf(_)
\* new Set(allVisitedUrls)
SetOf(urls) ==
    IF urls = <<>> THEN <<>>
    ELSE SetAdd(SetOf(SubSeq(urls, 1, Len(urls) - 1)), urls[Len(urls)])

\* faulty variant: the URL list is returned without deduplication
uniqueUrls_all(urls) == urls

\* Array.from(new Set(allVisitedUrls))
uniqueUrls(urls) == SetOf(urls)

\* faulty variant: compact is left out, pages without text count as content
Contents_all(pages) == pages

\* compact(result.data.map(item => item.markdown)): the pages with text
Contents(pages) == SelectSeq(pages, LAMBDA p : p.markdown # 0)

\* result.data.map(r => r.url).filter(url => url != null)
ResultUrls(pages) ==
    LET withUrl == SelectSeq(pages, LAMBDA p : p.url # NullUrl)
    IN  [i \in 1..Len(withUrl) |-> withUrl[i].url]

\* allGrants.push(...grants) and allVisitedUrls.push(...visitedUrls)
Push(all, items) == all \o items

\* faulty variant: the comparison never holds, the zero-grants branch is dead
NoGrantsFound_never(res) == Len(res.grants) < 0

\* grantResearchResult.grants.length === 0
NoGrantsFound(res) == Len(res.grants) = 0

\* the grants of one extraction response: the model chose the names; each
\* record's description tells which response and position it came from, so
\* that two copies of one name can be told apart
Extracted(names, q) ==
    [i \in 1..Len(names) |-> [name |-> names[i], description |-> <<q, i>>]]

(* --------------------- two requests in flight -------------------------- *)
\* Each invocation of POST and of researchAgricultureGrants has its own
\* locals. conc.ctl[r] is the control state of invocation r, conc.accs the
\* accumulator pairs and conc.streams the streams that exist, each found
\* through the invocation that declared it.
RequestIds == {1, 2}

\* what the services answer to request r is told apart from what they
\* answer to the other request
NameFor(r) == IF r = 1 THEN "A" ELSE "B"
UrlFor(r) == IF r = 1 THEN "u1" ELSE "u2"

\* faulty variant: the accumulators are declared at module level
AccumulatorsOf_shared(r) == 1

\* const allGrants = [], allVisitedUrls = [] are declared in the body of
\* researchAgricultureGrants: invocation r has the pair of its own
AccumulatorsOf(r) == r

\* const stream = new TransformStream(); const writer = ...getWriter() are
\* declared in the body of POST: invocation r writes to its own stream
WriterOf(r) == r

ConcInit ==
    [ctl |-> [r \in RequestIds |->
                 [pc |-> "idle", serpQueries |-> <<>>, idx |-> 1,
                  searchResults |-> <<>>, returned |-> <<>>,
                  result |-> NoResult]],
     accs |-> [r \in RequestIds |->
                 [allGrants |-> <<>>, allVisitedUrls |-> <<>>]],
     streams |-> [r \in RequestIds |-> <<>>]]

\* invocation r hands a frame to its writer
Emit(c, r, e) ==
    [c EXCEPT !.streams[WriterOf(r)] = Append(@, [r |-> r, e |-> e])]
EmitProgress(c, r, msg, q) == Emit(c, r, onProgress(<<>>, msg, q)[1])
EmitFrame(c, r, type, msg) == Emit(c, r, WriteFrame(<<>>, type, msg)[1])

(* ------------- the template variant of writeGrantReport --------------- *)
\* tmpl.pc is the position of the call, tmpl.grants and tmpl.visitedUrls
\* its arguments, tmpl.pending the template calls in flight (by position in
\* the grant list), tmpl.trace what it and the catch and finally blocks of
\* the route did, tmpl.report the string returned, as its lines.
TemplateGrantNames == {"A", "B", "C", "D"}

Injective(s) == \A i, j \in 1..Len(s) : s[i] = s[j] => i = j

\* the grant lists writeGrantReport is called with: names are unique after
\* deduplication and the route calls it only for a non-empty list
TemplateGrantLists ==
    {s \in SeqsUpTo(TemplateGrantNames, Cardinality(TemplateGrantNames)) :
        s # <<>> /\ Injective(s)}

\* the visitedUrls of a ResearchResult: deduplicated
UniqueUrlLists == {s \in SeqsUpTo(Urls, Cardinality(Urls)) : Injective(s)}

\* a line of markdown: a heading, a list item, a blank line or other text
Line(kind, text) == [kind |-> kind, text |-> text]
SourcesHeading == Line("heading", "Sources")
Blank == Line("blank", "")
\* the lines the model can put in reportMarkdown, a Sources heading and
\* list items naming URLs (visited or made up) among them
MdLines ==
    {SourcesHeading, Blank, Line("text", "grants"),
     Line("item", "u1"), Line("item", "made-up")}
\* reportMarkdown: a string is at least one line
Markdowns == SeqsUpTo(MdLines, MaxMdLines) \ {<<>>}

\* faulty variant: every grant gets a template
TemplatedGrants_all(grants) == grants

\* grants.slice(0, 3)
TemplatedGrants(grants) == Slice(grants, TemplateLimit)

\* visitedUrls.map(url => `- ${url}`).join('\n'); joining nothing gives the
\* empty string, one blank line
UrlItems(urls) ==
    IF urls = <<>> THEN <<Blank>>
    ELSE [i \in 1..Len(urls) |-> Line("item", urls[i])]

\* `\n\n## Sources\n\n${...}`
UrlsSection(urls) == <<Blank, SourcesHeading, Blank>> \o UrlItems(urls)

\* faulty variant: the Sources section is put before the model's markdown
BuildReport_sourcesFirst(md, urls) ==
    <<Line("heading", "Agricultural Grant Opportunities Report")>>
        \o UrlsSection(urls) \o <<Blank>> \o md

\* `# Agricultural Grant Opportunities Report\n\n${reportMarkdown}${urlsSection}`
BuildReport(md, urls) ==
    <<Line("heading", "Agricultural Grant Opportunities Report"), Blank>>
        \o md \o UrlsSection(urls)

TemplateInit ==
    [pc |-> "idle", grants |-> <<>>, visitedUrls |-> <<>>, pending |-> {},
     trace |-> <<>>, report |-> <<>>]

(* ----------------------------- the client ------------------------------ *)
\* client.view is the page shown, client.formData and client.formLoading
\* the state of GrantResearchForm, client.storage what local storage holds
\* under "grantResearchQuery" (no entry or one), client.toast the last
\* toast, client.last the handler that ran last; client.run is the position
\* of the results page (its effect and runGrantResearch), client.posts the
\* number of POST requests it sent, client.frames the frames the server
\* wrote, client.wire the part of the byte stream not yet read,
\* client.processed the frames the reader loop parsed, and isLoading,
\* progress and report the state of GrantsPage.
ClientInit ==
    [view |-> "form",
     formData |-> [query |-> "", farmType |-> "", location |-> ""],
     formLoading |-> FALSE,
     storage |-> <<>>,
     toast |-> "",
     last |-> "",
     run |-> "none",
     posts |-> 0,
     frames |-> <<>>,
     wire |-> <<>>,
     processed |-> <<>>,
     isLoading |-> TRUE,
     progress |-> "",
     report |-> "null"]

SorterInit == [pc |-> "idle", grantOpportunities |-> <<>>, sortedGrants |-> <<>>]

AggregatorInit == [pc |-> "idle", allGrants |-> <<>>, grants |-> <<>>]

ExtractorInit ==
    [pc |-> "idle", markdowns |-> <<>>, submitted |-> <<>>, called |-> FALSE]

(* ------------------------------- Init ---------------------------------- *)
Init ==
    /\ pc = "idle"
    /\ req = NoRequest
    /\ status = 0
    /\ body = ""
    /\ numQueries = DefaultNumQueries
    /\ serpQueries = <<>>
    /\ idx = 1
    /\ searchResults = <<>>
    /\ allGrants = <<>>
    /\ allVisitedUrls = <<>>
    /\ result = NoResult
    /\ trace = <<>>
    /\ returned = <<>>
    /\ broken = FALSE
    /\ conc = ConcInit
    /\ tmpl = TemplateInit
    /\ client = ClientInit
    /\ sorter = SorterInit
    /\ extractor = ExtractorInit
    /\ aggregator = AggregatorInit

(* ------------------------------ actions -------------------------------- *)
\* faulty variant: the error response is built but not returned, the handler
\* goes on to open the stream and start the research task
Reject_andGoOn(code, msg) ==
    /\ pc' = "generate"
    /\ status' = code
    /\ body' = msg
    /\ UNCHANGED <<req, numQueries, serpQueries, idx, searchResults, allGrants,
                   allVisitedUrls, result, trace, returned, broken, conc, tmpl, clientVars>>

\* a response that is not a stream: Response.json({error}, {status})
Reject(code, msg) ==
    /\ pc' = "responded"
    /\ status' = code
    /\ body' = msg
    /\ UNCHANGED <<req, numQueries, serpQueries, idx, searchResults, allGrants,
                   allVisitedUrls, result, trace, returned, broken, conc, tmpl, clientVars>>

\* faulty variant: the key check asks for both cookies to be absent
KeysMissing_both(r) == ~r.openaiKey /\ ~r.firecrawlKey

\* !openaiKey || !firecrawlKey
KeysMissing(r) == ~r.openaiKey \/ ~r.firecrawlKey

\* a request reaches the route
Arrive ==
    /\ pc = "idle"
    /\ pc' = "received"
    /\ req' \in Requests
    /\ UNCHANGED <<status, body, numQueries, serpQueries, idx, searchResults,
                   allGrants, allVisitedUrls, result, trace, returned, broken, conc, tmpl, clientVars>>

\* POST, up to `return response`: parse the body, check the API keys,
\* create the model, open the stream and start the detached research task
POST ==
    /\ pc = "received"
    /\ IF ~req.parsed
       THEN Reject(400, "Error processing request")
       ELSE IF req.enableApiKeys /\ KeysMissing(req)
       THEN Reject(401, AuthError)
       ELSE IF ~req.modelCreated
       THEN Reject(500, "Error creating model")
       ELSE /\ pc' = "generate"
            /\ status' = 200
            /\ numQueries' = IF req.hasNumQueries THEN req.numQueries
                                                  ELSE DefaultNumQueries
            /\ req' = NoRequest
            /\ UNCHANGED <<body, serpQueries, idx, searchResults, allGrants,
                           allVisitedUrls, result, trace, returned, broken, conc, tmpl, clientVars>>

\* the client goes away while the stream is open: the readable side is
\* cancelled and every later writer.write / writer.close rejects
ClientCancel ==
    /\ status = 200
    /\ pc # "done"
    /\ ~broken
    /\ broken' = TRUE
    /\ UNCHANGED <<pc, req, status, body, numQueries, serpQueries, idx,
                   searchResults, allGrants, allVisitedUrls, result, trace,
                   returned, conc, tmpl, clientVars>>

\* faulty variant: a rejected call is tried once more before giving up
QueriesCallRejects_retried(tr) ==
    Call(Call(tr, "model", "queries", 0, FALSE), "model", "queries", 0, FALSE)

\* await generateObject(...) of generateGrantQueries rejects; nothing between
\* the call and the catch block of the detached task catches it
QueriesCallRejects(tr) == Call(tr, "model", "queries", 0, FALSE)

\* generateGrantQueries, called first by researchAgricultureGrants; a
\* rejected model call propagates to the catch block of the detached task
GenerateGrantQueries ==
    /\ pc = "generate"
    /\ LET t1 == onProgress(trace, "generating", 0)
       IN  \/ \E n \in 0..MaxModelQueries :
                LET queries == [i \in 1..n |-> i]
                    t2 == Call(t1, "model", "queries", 0, TRUE)
                    t3 == onProgress(t2, "created", 0)
                IN  /\ serpQueries' = TruncateQueries(queries, numQueries)
                    /\ trace' = t3
                    /\ pc' = "loop"
           \/ /\ trace' = CatchFinally(QueriesCallRejects(t1))
              /\ pc' = "done"
              /\ UNCHANGED serpQueries
    /\ UNCHANGED <<req, status, body, numQueries, idx, searchResults, allGrants,
                   allVisitedUrls, result, returned, broken, conc, tmpl, clientVars>>

\* faulty variant: the per-query catch block swallows the failure silently
QueryFailed_silent(tr, q) == tr

\* catch (e) of the per-query loop: log, report as progress, go on
QueryFailed(tr, q) == onProgress(tr, "errorQuery", q)

\* one iteration of the for..of loop up to the search result
Search ==
    /\ pc = "loop"
    /\ idx <= Len(serpQueries)
    /\ LET q == serpQueries[idx]
           t1 == onProgress(trace, "researching", q)
       IN  \/ \E pages \in SeqsUpTo(Pages, MaxPages) :
                LET t2 == Call(t1, "search", "search", q, TRUE)
                    t3 == onProgress(t2, "found", q)
                IN  /\ trace' = t3
                    /\ IF Len(pages) > 0
                       THEN /\ pc' = "extract"
                            /\ searchResults' = pages
                            /\ idx' = idx
                       ELSE /\ pc' = "loop"
                            /\ searchResults' = <<>>
                            /\ idx' = idx + 1
           \/ /\ trace' = QueryFailed(Call(t1, "search", "search", q, FALSE), q)
              /\ pc' = "loop"
              /\ idx' = idx + 1
              /\ UNCHANGED searchResults
    /\ UNCHANGED <<req, status, body, numQueries, serpQueries, allGrants,
                   allVisitedUrls, result, returned, broken, conc, tmpl, clientVars>>

\* faulty variant: the number of grants is not reported
ReportGenerated_missing(tr) == tr

\* if (onProgress) await onProgress(formatProgress.generated(...)), after
\* the extraction call has resolved
ReportGenerated(tr) == onProgress(tr, "generated", 0)

\* processGrantResults for the query just searched, and the two pushes (or
\* the catch block) that end the iteration
ProcessGrantResults ==
    /\ pc = "extract"
    /\ LET q == serpQueries[idx]
           contents == Contents(searchResults)
           t1 == onProgress(trace, "ran", q)
       IN  IF Len(contents) = 0
           THEN /\ trace' = t1
                /\ returned' = Append(returned, [q |-> q, grants |-> <<>>,
                                                 visitedUrls |-> <<>>])
                /\ allGrants' = Push(allGrants, <<>>)
                /\ allVisitedUrls' = Push(allVisitedUrls, <<>>)
           ELSE \/ \E names \in SeqsUpTo(GrantNames, MaxGrants) :
                     LET grants == Extracted(names, q)
                         visitedUrls == ResultUrls(searchResults)
                         t2 == Call(t1, "model", "extract", q, TRUE)
                         t3 == ReportGenerated(t2)
                     IN  /\ trace' = t3
                         /\ returned' = Append(returned,
                                [q |-> q, grants |-> grants,
                                 visitedUrls |-> visitedUrls])
                         /\ allGrants' = Push(allGrants, grants)
                         /\ allVisitedUrls' = Push(allVisitedUrls, visitedUrls)
                \/ /\ trace' = QueryFailed(
                                  Call(t1, "model", "extract", q, FALSE), q)
                   /\ UNCHANGED <<returned, allGrants, allVisitedUrls>>
    /\ pc' = "loop"
    /\ idx' = idx + 1
    /\ searchResults' = <<>>
    /\ UNCHANGED <<req, status, body, numQueries, serpQueries, result, broken, conc, tmpl, clientVars>>

\* the end of researchAgricultureGrants: deduplicate and return
Aggregate ==
    /\ pc = "loop"
    /\ idx > Len(serpQueries)
    /\ result' = [grants |-> uniqueGrants(allGrants),
                  visitedUrls |-> uniqueUrls(allVisitedUrls)]
    /\ pc' = "report"
    /\ UNCHANGED <<req, status, body, numQueries, serpQueries, idx, searchResults,
                   allGrants, allVisitedUrls, trace, returned, broken, conc, tmpl, clientVars>>

\* the zero-grants branch of the detached task, with the catch and finally
\* blocks it runs into
ZeroGrants ==
    /\ pc = "report"
    /\ NoGrantsFound(result)
    /\ LET t1 == onProgress(trace, "noGrants", 0)
           t2 == WriteFrame(t1, "done", NoGrantsReport)
       IN  trace' = IF broken
                    THEN CatchFinally(t2)
                    ELSE Finally(CloseWriter(t2, "zeroGrants"))
    /\ pc' = "done"
    /\ UNCHANGED <<req, status, body, numQueries, serpQueries, idx, searchResults,
                   allGrants, allVisitedUrls, result, returned, broken, conc, tmpl, clientVars>>

\* the report branch of the detached task: writeGrantReport, the done frame
\* and the catch and finally blocks
Report ==
    /\ pc = "report"
    /\ ~NoGrantsFound(result)
    /\ LET t1 == onProgress(trace, "report", 0)
       IN  \/ LET t2 == Call(t1, "model", "report", 0, TRUE)
                  t3 == WriteFrame(t2, "done", "report")
              IN  trace' = IF broken THEN CatchFinally(t3) ELSE Finally(t3)
           \/ trace' = CatchFinally(Call(t1, "model", "report", 0, FALSE))
    /\ pc' = "done"
    /\ UNCHANGED <<req, status, body, numQueries, serpQueries, idx, searchResults,
                   allGrants, allVisitedUrls, result, returned, broken, conc, tmpl, clientVars>>

Next ==
    \/ Arrive
    \/ POST
    \/ ClientCancel
    \/ GenerateGrantQueries
    \/ Search
    \/ ProcessGrantResults
    \/ Aggregate
    \/ ZeroGrants
    \/ Report

Spec == Init /\ [][Next]_vars

(* ---------------- the route under two concurrent requests -------------- *)
\* what the search service returns to request r: no page, or one page with
\* or without text
SearchResponsesFor(r) ==
    {<<>>} \cup {<<[url |-> UrlFor(r), markdown |-> m]>> : m \in MarkdownLens}

\* what the model extracts for request r: no grant or one grant
ExtractionsFor(r) == {<<>>, <<NameFor(r)>>}

\* POST for request r, accepted: the stream is open, the task is started
StartOf(r) ==
    /\ conc.ctl[r].pc = "idle"
    /\ conc' = [conc EXCEPT !.ctl[r].pc = "generate"]

\* generateGrantQueries of invocation r
GenerateOf(r) ==
    /\ conc.ctl[r].pc = "generate"
    /\ LET c1 == EmitProgress(conc, r, "generating", 0)
       IN  \/ \E n \in 0..MaxModelQueries :
                LET queries == [i \in 1..n |-> i]
                    c2 == EmitProgress(c1, r, "created", 0)
                IN  conc' = [c2 EXCEPT
                        !.ctl[r].serpQueries =
                            TruncateQueries(queries, DefaultNumQueries),
                        !.ctl[r].pc = "loop"]
           \/ conc' = [EmitFrame(c1, r, "error", "research") EXCEPT
                          !.ctl[r].pc = "done"]

\* the search of the current query of invocation r
SearchOf(r) ==
    /\ conc.ctl[r].pc = "loop"
    /\ conc.ctl[r].idx <= Len(conc.ctl[r].serpQueries)
    /\ LET q == conc.ctl[r].serpQueries[conc.ctl[r].idx]
           c1 == EmitProgress(conc, r, "researching", q)
       IN  \/ \E pages \in SearchResponsesFor(r) :
                LET c2 == EmitProgress(c1, r, "found", q)
                IN  conc' = IF Len(pages) > 0
                            THEN [c2 EXCEPT !.ctl[r].pc = "extract",
                                            !.ctl[r].searchResults = pages]
                            ELSE [c2 EXCEPT !.ctl[r].idx = @ + 1]
           \/ conc' = [EmitProgress(c1, r, "errorQuery", q) EXCEPT
                          !.ctl[r].idx = @ + 1]

\* processGrantResults of invocation r and the pushes that follow it
ProcessOf(r) ==
    /\ conc.ctl[r].pc = "extract"
    /\ LET q == conc.ctl[r].serpQueries[conc.ctl[r].idx]
           contents == Contents(conc.ctl[r].searchResults)
           c1 == EmitProgress(conc, r, "ran", q)
           next(c) == [c EXCEPT !.ctl[r].pc = "loop",
                                !.ctl[r].idx = @ + 1,
                                !.ctl[r].searchResults = <<>>]
           push(c, grants, visitedUrls) ==
               [c EXCEPT
                   !.ctl[r].returned =
                       Append(@, [q |-> q, grants |-> grants,
                                  visitedUrls |-> visitedUrls]),
                   !.accs[AccumulatorsOf(r)].allGrants = Push(@, grants),
                   !.accs[AccumulatorsOf(r)].allVisitedUrls =
                       Push(@, visitedUrls)]
       IN  IF Len(contents) = 0
           THEN conc' = next(push(c1, <<>>, <<>>))
           ELSE \/ \E names \in ExtractionsFor(r) :
                     conc' = next(push(EmitProgress(c1, r, "generated", 0),
                                       Extracted(names, q),
                                       ResultUrls(conc.ctl[r].searchResults)))
                \/ conc' = next(EmitProgress(c1, r, "errorQuery", q))

\* the end of researchAgricultureGrants of invocation r
AggregateOf(r) ==
    /\ conc.ctl[r].pc = "loop"
    /\ conc.ctl[r].idx > Len(conc.ctl[r].serpQueries)
    /\ conc' = [conc EXCEPT
           !.ctl[r].result =
               [grants |-> uniqueGrants(
                               conc.accs[AccumulatorsOf(r)].allGrants),
                visitedUrls |-> uniqueUrls(
                               conc.accs[AccumulatorsOf(r)].allVisitedUrls)],
           !.ctl[r].pc = "report"]

\* the rest of the detached task of invocation r: the zero-grants branch
\* or writeGrantReport, and the terminal frame
FinishOf(r) ==
    /\ conc.ctl[r].pc = "report"
    /\ IF NoGrantsFound(conc.ctl[r].result)
       THEN conc' = [EmitFrame(EmitProgress(conc, r, "noGrants", 0),
                               r, "done", NoGrantsReport)
                        EXCEPT !.ctl[r].pc = "done"]
       ELSE LET c1 == EmitProgress(conc, r, "report", 0)
            IN  \/ conc' = [EmitFrame(c1, r, "done", "report")
                               EXCEPT !.ctl[r].pc = "done"]
                \/ conc' = [EmitFrame(c1, r, "error", "research")
                               EXCEPT !.ctl[r].pc = "done"]

\* the single-request variables, which the two-request actions leave alone
routeVars == <<pc, req, status, body, numQueries, serpQueries, idx,
               searchResults, allGrants, allVisitedUrls, result, trace,
               returned, broken>>

\* the variables of the server side, which the browser leaves alone
serverVars == <<routeVars, conc, tmpl>>

StartAny == (\E r \in RequestIds : StartOf(r)) /\ UNCHANGED <<routeVars, tmpl, clientVars>>
GenerateAny == (\E r \in RequestIds : GenerateOf(r)) /\ UNCHANGED <<routeVars, tmpl, clientVars>>
SearchAny == (\E r \in RequestIds : SearchOf(r)) /\ UNCHANGED <<routeVars, tmpl, clientVars>>
ProcessAny == (\E r \in RequestIds : ProcessOf(r)) /\ UNCHANGED <<routeVars, tmpl, clientVars>>
AggregateAny == (\E r \in RequestIds : AggregateOf(r)) /\ UNCHANGED <<routeVars, tmpl, clientVars>>
FinishAny == (\E r \in RequestIds : FinishOf(r)) /\ UNCHANGED <<routeVars, tmpl, clientVars>>

NextConcurrent ==
    \/ StartAny
    \/ GenerateAny
    \/ SearchAny
    \/ ProcessAny
    \/ AggregateAny
    \/ FinishAny

\* two requests served at once, their steps interleaved at every await
SpecConcurrent == Init /\ [][NextConcurrent]_vars

(* ------------- the template variant of writeGrantReport --------------- *)
\* the route calls writeGrantReport; Promise.all maps over the first grants
\* and every generateGrantTemplate issues its generateObject call before the
\* first of them can settle
WriteGrantReport ==
    /\ tmpl.pc = "idle"
    /\ \E grants \in TemplateGrantLists, visitedUrls \in UniqueUrlLists :
         LET templated == TemplatedGrants(grants)
             starts == [i \in 1..Len(templated) |->
                           Event("start", "model", "template",
                                 templated[i], TRUE)]
         IN  tmpl' = [tmpl EXCEPT !.pc = "templates",
                                  !.grants = grants,
                                  !.visitedUrls = visitedUrls,
                                  !.pending = 1..Len(templated),
                                  !.trace = starts]
    /\ UNCHANGED <<routeVars, conc, clientVars>>

\* one template call settles. The first rejection rejects Promise.all:
\* writeGrantReport throws into the catch and finally blocks of the route,
\* while the other template calls are still in flight; when the last call
\* has resolved, writeGrantReport goes on to the synthesis
TemplateSettles ==
    /\ tmpl.pending # {}
    /\ \E i \in tmpl.pending, ok \in BOOLEAN :
         LET t1 == Append(tmpl.trace,
                       Event("call", "model", "template", tmpl.grants[i], ok))
             left == tmpl.pending \ {i}
         IN  tmpl' = [tmpl EXCEPT
                 !.pending = left,
                 !.trace = IF tmpl.pc = "templates" /\ ~ok
                           THEN CatchFinally(t1) ELSE t1,
                 !.pc = IF tmpl.pc # "templates" THEN tmpl.pc
                        ELSE IF ~ok THEN "done"
                        ELSE IF left = {} THEN "synthesize"
                        ELSE "templates"]
    /\ UNCHANGED <<routeVars, conc, clientVars>>

\* the synthesis call, the Sources section appended to what it returned,
\* and the done frame of the route; or the call rejects
Synthesize ==
    /\ tmpl.pc = "synthesize"
    /\ \/ \E md \in Markdowns :
            tmpl' = [tmpl EXCEPT
                !.pc = "done",
                !.report = BuildReport(md, tmpl.visitedUrls),
                !.trace = Finally(WriteFrame(
                              Call(tmpl.trace, "model", "report", 0, TRUE),
                              "done", "report"))]
       \/ tmpl' = [tmpl EXCEPT
              !.pc = "done",
              !.trace = CatchFinally(
                            Call(tmpl.trace, "model", "report", 0, FALSE))]
    /\ UNCHANGED <<routeVars, conc, clientVars>>

NextTemplate ==
    \/ WriteGrantReport
    \/ TemplateSettles
    \/ Synthesize

\* one call of the template variant of writeGrantReport from the route
SpecTemplate == Init /\ [][NextTemplate]_vars

(* ----------------------------- the client ------------------------------ *)
\* faulty variant: the form does not look at the description
QueryMissing_never(fd) == FALSE

\* !formData.query
QueryMissing(fd) == fd.query = ""

\* JSON.stringify({query, farmType, location, timestamp})
StoredItem(fd) ==
    [query |-> fd.query, farmType |-> fd.farmType, location |-> fd.location,
     timestamp |-> "now"]

\* handleChange: the user edits the description or the farm type
HandleChange ==
    /\ client.view = "form"
    /\ client.run = "none"
    /\ \E q \in {"", "farm"}, ft \in {"", "dairy"} :
         client' = [client EXCEPT !.formData.query = q,
                                  !.formData.farmType = ft,
                                  !.last = "change"]
    /\ UNCHANGED <<serverVars, sorter, extractor, aggregator>>

\* handleSubmit of the form; localStorage.setItem can throw (storage full or
\* blocked), which the catch block reports
HandleSubmit ==
    /\ client.view = "form"
    /\ client.run = "none"
    /\ \E stored \in BOOLEAN :
         client' =
           IF QueryMissing(client.formData)
           THEN [client EXCEPT !.toast = "Missing information",
                               !.last = "submit"]
           ELSE IF stored
           THEN [client EXCEPT !.formLoading = TRUE,
                               !.storage = <<StoredItem(client.formData)>>,
                               !.view = "results",
                               !.run = "mount",
                               !.last = "submit"]
           ELSE [client EXCEPT !.formLoading = FALSE,
                               !.toast = "Error",
                               !.last = "submit"]
    /\ UNCHANGED <<serverVars, sorter, extractor, aggregator>>

\* the user opens the results page by its address
OpenResults ==
    /\ client.view = "form"
    /\ client.run = "none"
    /\ client' = [client EXCEPT !.view = "results", !.run = "mount",
                                !.last = "open"]
    /\ UNCHANGED <<serverVars, sorter, extractor, aggregator>>

\* the mount effect of GrantsPage, up to the fetch of runGrantResearch
ResultsEffect ==
    /\ client.run = "mount"
    /\ client' =
         IF client.storage = <<>>
         THEN [client EXCEPT !.view = "form", !.run = "none",
                             !.last = "effect"]
         ELSE [client EXCEPT !.run = "fetching",
                             !.isLoading = TRUE,
                             !.progress = "Starting grant research...",
                             !.posts = @ + 1,
                             !.last = "effect"]
    /\ UNCHANGED <<serverVars, sorter, extractor, aggregator>>

\* catch (error) of runGrantResearch
RunFailed(c) ==
    [c EXCEPT !.toast = "Error", !.isLoading = FALSE, !.run = "ended",
              !.last = "catch"]

\* a frame of the stream: {progress}, {done: true, report} or {error}
Frame(type, value) == [type |-> type, value |-> value]
\* what the route writes to one stream: progress frames, then the done frame
\* (the no-grants string or a structured report) or the error frame
ServerStreams ==
    {[i \in 1..k |-> Frame("progress", "p")] \o <<terminal>> :
        k \in 0..MaxProgressFrames,
        terminal \in {Frame("done", NoGrantsReport),
                      Frame("done", "structured"),
                      Frame("error", "research")}}

\* the text of the stream in pieces: the "data: " prefix, the JSON text of
\* frame k in two halves, and the line feeds
Piece(t, k) == [t |-> t, k |-> k]
LineFeed == Piece("nl", 0)
DataPrefix == Piece("data", 0)
\* `data: ${JSON.stringify(frame)}\n\n`
EncodeFrame(k) ==
    <<DataPrefix, Piece("head", k), Piece("tail", k), LineFeed, LineFeed>>

RECURSIVE EncodeUpTo(_)
EncodeUpTo(n) == IF n = 0 THEN <<>> ELSE EncodeUpTo(n - 1) \o EncodeFrame(n)
\* the bytes of a stream of frames
Encode(frames) == EncodeUpTo(Len(frames))

RECURSIVE SplitBlank(_)
\* chunk.split("\n\n")
SplitBlank(text) ==
    LET at == {i \in 1..(Len(text) - 1) :
                  text[i] = LineFeed /\ text[i + 1] = LineFeed}
    IN  IF at = {} THEN <<text>>
        ELSE LET i == CHOOSE j \in at : \A k \in at : j <= k
             IN  <<SubSeq(text, 1, i - 1)>>
                     \o SplitBlank(SubSeq(text, i + 2, Len(text)))

\* line.trim() !== ""
NotBlank(line) == \E i \in 1..Len(line) : line[i] # LineFeed

\* line.replace("data: ", ""): the first occurrence is removed
StripData(line) ==
    LET at == {i \in 1..Len(line) : line[i] = DataPrefix}
    IN  IF at = {} THEN line
        ELSE LET i == CHOOSE j \in at : \A k \in at : j <= k
             IN  SubSeq(line, 1, i - 1) \o SubSeq(line, i + 1, Len(line))

\* JSON.parse(line): white space around the value is skipped; the number of
\* the frame whose JSON text the line is, 0 when JSON.parse throws
ParseLine(line) ==
    LET value == SelectSeq(line, LAMBDA x : x # LineFeed)
    IN  IF /\ Len(value) = 2
           /\ value[1].t = "head"
           /\ value[2].t = "tail"
           /\ value[1].k = value[2].k
           /\ \E i, j \in 1..Len(line) :
                 /\ j = i + 1
                 /\ line[i] = value[1]
                 /\ line[j] = value[2]
        THEN value[1].k
        ELSE 0

\* chunk.split("\n\n").filter(...).map(line => line.replace("data: ", "")),
\* each line then given to JSON.parse
LinesOf(chunk) ==
    LET lines == SelectSeq(SplitBlank(chunk), NotBlank)
    IN  [i \in 1..Len(lines) |-> ParseLine(StripData(lines[i]))]

\* the body of the for loop for one line: k is the frame parsed (0: the
\* catch block logged a parse error)
HandleLine(c, k) ==
    IF k = 0 THEN c
    ELSE LET frame == c.frames[k]
             c1 == [c EXCEPT !.processed = Append(@, k)]
         IN  CASE frame.type = "progress" ->
                    [c1 EXCEPT !.progress = frame.value]
               [] frame.type = "done" ->
                    [c1 EXCEPT !.report = frame.value, !.isLoading = FALSE]
               [] frame.type = "error" ->
                    [c1 EXCEPT !.toast = "Error", !.isLoading = FALSE]

RECURSIVE HandleLines(_, _)
HandleLines(c, ks) ==
    IF ks = <<>> THEN c
    ELSE HandleLines(HandleLine(c, Head(ks)), Tail(ks))

\* await fetch(...): it rejects or answers with an error status, both ending
\* in the catch block, or it answers with the event stream
FetchSettles ==
    /\ client.run = "fetching"
    /\ \/ client' = RunFailed(client)
       \/ \E frames \in ServerStreams :
            client' = [client EXCEPT !.frames = frames,
                                     !.wire = Encode(frames),
                                     !.run = "reading",
                                     !.last = "fetch"]
    /\ UNCHANGED <<serverVars, sorter, extractor, aggregator>>

\* one turn of the reader loop: reader.read() reports the end of the
\* stream, or rejects, or delivers the next bytes, cut wherever the
\* transport cut them
ReadChunk ==
    /\ client.run = "reading"
    /\ \/ /\ client.wire = <<>>
          /\ client' = [client EXCEPT !.run = "ended", !.last = "read"]
       \/ client' = RunFailed(client)
       \/ \E n \in 1..Len(client.wire) :
            LET chunk == SubSeq(client.wire, 1, n)
                rest == SubSeq(client.wire, n + 1, Len(client.wire))
            IN  client' = [HandleLines(client, LinesOf(chunk))
                              EXCEPT !.wire = rest, !.last = "read"]
    /\ UNCHANGED <<serverVars, sorter, extractor, aggregator>>

\* isLoading ? ... : report ? ... : ... of the structured results page
RenderBranch(c) ==
    IF c.isLoading THEN "loading"
    ELSE IF c.report # "null" THEN "report"
    ELSE "noResults"

NextClient ==
    \/ HandleChange
    \/ HandleSubmit
    \/ OpenResults
    \/ ResultsEffect
    \/ FetchSettles
    \/ ReadChunk

\* the browser: the form, the results page and the stream it reads
SpecClient == Init /\ [][NextClient]_vars

(* --------------------------- the extractor ----------------------------- *)
\* the budget processGrantResults passes to trimPrompt
ContentBudget == 25000

\* a page's text: its length in characters and the number of characters cut
\* out of it; length 0 stands for a page with no markdown
Text(size) == [size |-> size, cut |-> 0]
TextSizes ==
    {0, 1, ContentBudget - 1, ContentBudget, ContentBudget + 1,
     2 * ContentBudget}
SearchMarkdowns ==
    UNION {[1..n -> {Text(z) : z \in TextSizes}] : n \in 0..MaxTexts}

\* trimPrompt of ./ai/providers: text within the budget is returned as it
\* is, longer text is cut down to a window of the budget's length
trimPrompt(text, budget) ==
    IF text.size <= budget THEN text
    ELSE [size |-> budget, cut |-> text.cut + (text.size - budget)]

\* compact(result.data.map(item => item.markdown))
Compact(markdowns) == SelectSeq(markdowns, LAMBDA t : t.size # 0)

\* faulty variant: the contents are passed on as they are
TrimmedContents_untrimmed(markdowns) == Compact(markdowns)

\* compact(...).map(content => trimPrompt(content, 25_000))
TrimmedContents(markdowns) ==
    LET texts == Compact(markdowns)
    IN  [i \in 1..Len(texts) |-> trimPrompt(texts[i], ContentBudget)]

\* processGrantResults is called with a search response
ExtractorReceives ==
    /\ extractor.pc = "idle"
    /\ \E markdowns \in SearchMarkdowns :
         extractor' = [extractor EXCEPT !.pc = "called",
                                        !.markdowns = markdowns]
    /\ UNCHANGED <<serverVars, client, sorter, aggregator>>

\* processGrantResults up to the generateObject call: the model is called
\* with the contents unless there are none
ExtractorSubmits ==
    /\ extractor.pc = "called"
    /\ LET contents == TrimmedContents(extractor.markdowns)
       IN  extractor' =
             IF contents = <<>>
             THEN [extractor EXCEPT !.pc = "returned"]
             ELSE [extractor EXCEPT !.pc = "returned",
                                    !.submitted = contents,
                                    !.called = TRUE]
    /\ UNCHANGED <<serverVars, client, sorter, aggregator>>

NextExtract ==
    \/ ExtractorReceives
    \/ ExtractorSubmits

\* one call of processGrantResults on page texts of every length class
SpecExtract == Init /\ [][NextExtract]_vars

(* ------------------------ the sorted grant list ------------------------ *)
\* report.grantOpportunities: the i-th grant is named i, with an
\* eligibilityCount and a relevanceScore
OpportunityLists ==
    UNION {{[i \in 1..n |-> [name |-> i,
                              eligibilityCount |-> counts[i],
                              relevanceScore |-> scores[i]]] :
               counts \in [1..n -> {0, 1}], scores \in [1..n -> {1, 2}]} :
           n \in 0..MaxOpportunities}

\* faulty variant: the relevance score does not break ties
CompareGrants_countOnly(a, b) == b.eligibilityCount - a.eligibilityCount

\* the comparator of the sort effect: negative when a goes before b
CompareGrants(a, b) ==
    IF a.eligibilityCount # b.eligibilityCount
    THEN b.eligibilityCount - a.eligibilityCount
    ELSE b.relevanceScore - a.relevanceScore

\* g put behind every grant of the sorted list that does not go after it
InsertGrant(list, g) ==
    LET after == {i \in 1..Len(list) : CompareGrants(list[i], g) > 0}
        k == IF after = {} THEN Len(list) + 1
             ELSE CHOOSE i \in after : \A j \in after : i <= j
    IN  SubSeq(list, 1, k - 1) \o <<g>> \o SubSeq(list, k, Len(list))

RECURSIVE SortGrants(_)
\* Array.prototype.sort with the comparator: a stable sort
SortGrants(list) ==
    IF list = <<>> THEN <<>>
    ELSE InsertGrant(SortGrants(SubSeq(list, 1, Len(list) - 1)),
                     list[Len(list)])

\* setReport(data.report) with a structured report
ReportArrives ==
    /\ sorter.pc = "idle"
    /\ \E grants \in OpportunityLists :
         sorter' = [sorter EXCEPT !.pc = "report",
                                  !.grantOpportunities = grants]
    /\ UNCHANGED <<serverVars, client, extractor, aggregator>>

\* the effect on [report]: a copy of the list is sorted and displayed
SortEffect ==
    /\ sorter.pc = "report"
    /\ sorter' = [sorter EXCEPT
                     !.pc = "sorted",
                     !.sortedGrants = SortGrants(sorter.grantOpportunities)]
    /\ UNCHANGED <<serverVars, client, extractor, aggregator>>

NextSort ==
    \/ ReportArrives
    \/ SortEffect

\* the structured results page sorting the grants of one report
SpecSort == Init /\ [][NextSort]_vars

(* -------------------------- the aggregator ----------------------------- *)
\* allGrants after the loop: the i-th extracted grant carries i as its
\* description, so that copies of one name can be told apart
ExtractedNames == {"A", "B", "C"}
ExtractionOrders ==
    UNION {{[i \in 1..n |-> [name |-> names[i], description |-> i]] :
               names \in [1..n -> ExtractedNames]} : n \in 0..MaxExtracted}

\* the loop of researchAgricultureGrants has pushed every extraction
AggregatorCollects ==
    /\ aggregator.pc = "idle"
    /\ \E grants \in ExtractionOrders :
         aggregator' = [aggregator EXCEPT !.pc = "collected",
                                          !.allGrants = grants]
    /\ UNCHANGED <<serverVars, client, sorter, extractor>>

\* Array.from(new Map(allGrants.map(grant => [grant.name, grant])).values())
AggregatorDeduplicates ==
    /\ aggregator.pc = "collected"
    /\ aggregator' = [aggregator EXCEPT
                         !.pc = "returned",
                         !.grants = uniqueGrants(aggregator.allGrants)]
    /\ UNCHANGED <<serverVars, client, sorter, extractor>>

NextAggregate ==
    \/ AggregatorCollects
    \/ AggregatorDeduplicates

\* the deduplication of researchAgricultureGrants on every extraction order
SpecAggregate == Init /\ [][NextAggregate]_vars

(* ------------------------- reading the trace --------------------------- *)
Writes == SelectSeq(trace, LAMBDA e : e.ev = "write")
Closes == SelectSeq(trace, LAMBDA e : e.ev = "close")
Calls == SelectSeq(trace, LAMBDA e : e.ev = "call")

WritesOf(type) == SelectSeq(Writes, LAMBDA e : e.type = type)
CallsOf(msg) == SelectSeq(Calls, LAMBDA e : e.msg = msg)

\* the model call of generateGrantQueries resolved / rejected
GenerationOk == \E i \in 1..Len(trace) :
    trace[i].ev = "call" /\ trace[i].msg = "queries" /\ trace[i].ok
GenerationThrew == \E i \in 1..Len(trace) :
    trace[i].ev = "call" /\ trace[i].msg = "queries" /\ ~trace[i].ok
\* writeGrantReport resolved / rejected
SynthesisOk == \E i \in 1..Len(trace) :
    trace[i].ev = "call" /\ trace[i].msg = "report" /\ trace[i].ok
SynthesisThrew == \E i \in 1..Len(trace) :
    trace[i].ev = "call" /\ trace[i].msg = "report" /\ ~trace[i].ok
\* the write of a done frame was rejected
DoneWriteFailed == \E i \in 1..Len(trace) :
    trace[i].ev = "write" /\ trace[i].type = "done" /\ ~trace[i].ok

\* the detached task has finished
Finished == pc = "done"
\* researchAgricultureGrants has returned its result
ResearchReturned == pc = "report" \/ (pc = "done" /\ GenerationOk)

\* the search or the extraction call of query q rejected
QueryThrew(q) == \E i \in 1..Len(trace) :
    /\ trace[i].ev = "call"
    /\ trace[i].msg \in {"search", "extract"}
    /\ trace[i].q = q
    /\ ~trace[i].ok

RECURSIVE Flatten(_, _)
\* the concatenation of one field of the entries of `returned`
Flatten(rets, field) ==
    IF rets = <<>> THEN <<>>
    ELSE Flatten(SubSeq(rets, 1, Len(rets) - 1), field) \o rets[Len(rets)][field]

\* every grant and every URL the extractions returned, in encounter order
AllExtracted == Flatten(returned, "grants")
AllReturnedUrls == Flatten(returned, "visitedUrls")

Range(s) == {s[i] : i \in 1..Len(s)}
NamesOf(grants) == {grants[i].name : i \in 1..Len(grants)}

(* ============================== claims ================================= *)

\* C1: on every path through the detached research task (report delivered,
\* zero grants found, pipeline threw) writer.close is invoked exactly once,
\* and that invocation is the one in the finally block.
C1_ClosedExactlyOnceInFinally ==
    Finished => (Len(Closes) = 1 /\ Closes[1].type = "finally")

\* C2: when the aggregated grant list is empty the orchestrator writes a
\* done frame whose report is exactly the fixed no-grants string, writes no
\* other done frame, and writeGrantReport is never called.
C2_ZeroGrantsFixedDone ==
    (ResearchReturned /\ Len(result.grants) = 0) =>
        /\ CallsOf("report") = <<>>
        /\ Finished =>
              /\ Len(WritesOf("done")) = 1
              /\ WritesOf("done")[1].msg = NoGrantsReport

\* C2 witness: a finished request whose queries were searched and extracted
\* but yielded no grant, with the done frame in the stream
C2_Witness ==
    /\ Finished
    /\ ResearchReturned
    /\ Len(result.grants) = 0
    /\ returned # <<>>
    /\ \E i \in 1..Len(Writes) : Writes[i].type = "done" /\ Writes[i].ok

C4_SynthesisFailureTerminal ==
    SynthesisThrew =>
        /\ Finished
        /\ Len(WritesOf("error")) = 1
        /\ Writes[Len(Writes)].type = "error"
        /\ WritesOf("done") = <<>>
        /\ Calls[Len(Calls)].msg = "report"
        /\ ~Calls[Len(Calls)].ok

\* C4 witness: writeGrantReport threw and the error frame reached the stream
C4_Witness ==
    /\ SynthesisThrew
    /\ Writes[Len(Writes)].type = "error"
    /\ Writes[Len(Writes)].ok

\* the parts of C5 about researchAgricultureGrants itself: once the queries
\* are generated it returns; a query emits one failure message iff its
\* search or extraction threw; every generated query is searched once; and
\* everything the other extractions returned is in the result
C5_ResearchTolerant ==
    /\ Finished => (\E i \in 1..Len(Writes) :
                        Writes[i].msg \in {"noGrants", "report"})
    /\ \A k \in 1..Len(serpQueries) :
          LET q == serpQueries[k]
              failures == SelectSeq(Writes,
                              LAMBDA e : e.msg = "errorQuery" /\ e.q = q)
              searches == SelectSeq(CallsOf("search"), LAMBDA e : e.q = q)
          IN  /\ Len(failures) = IF QueryThrew(q) THEN 1 ELSE 0
              /\ Len(searches) = 1
    /\ NamesOf(result.grants) = NamesOf(AllExtracted)
    /\ Range(result.visitedUrls) = Range(AllReturnedUrls)
    /\ \A k \in 1..Len(returned) : ~QueryThrew(returned[k].q)

LastIndexOf(grants, name) ==
    CHOOSE i \in 1..Len(grants) :
        /\ grants[i].name = name
        /\ \A j \in (i + 1)..Len(grants) : grants[j].name # name
FirstIndexOf(grants, name) ==
    CHOOSE i \in 1..Len(grants) :
        /\ grants[i].name = name
        /\ \A j \in 1..(i - 1) : grants[j].name # name

\* the queries whose extraction returned a grant of that name
QueriesExtracting(name) ==
    {returned[k].q : k \in {j \in 1..Len(returned) :
                               name \in NamesOf(returned[j].grants)}}

\* C6: no two grants of the ResearchResult share a name, and the number of
\* grants returned equals the number of distinct names among all extracted
\* grants.
C6_GrantNamesUnique ==
    ResearchReturned =>
        /\ \A i, j \in 1..Len(result.grants) :
              result.grants[i].name = result.grants[j].name => i = j
        /\ Len(result.grants) = Cardinality(NamesOf(AllExtracted))

\* C6 witness: a result with fewer grants than were extracted
C6_Witness ==
    /\ ResearchReturned
    /\ Len(result.grants) > 0
    /\ Len(result.grants) < Len(AllExtracted)

\* C7: when two extracted grants have the same name, the record kept under
\* that name is the one encountered later in the query/extraction order;
\* the earlier record's field values do not appear in the result.
C7_LastWriteWins ==
    ResearchReturned =>
        \A i \in 1..Len(result.grants) :
            LET name == result.grants[i].name
            IN  result.grants[i] = AllExtracted[LastIndexOf(AllExtracted, name)]

\* C7 witness: a name extracted twice, and the result holds the later copy
C7_Witness ==
    /\ ResearchReturned
    /\ \E i, j \in 1..Len(AllExtracted) :
          /\ i < j
          /\ AllExtracted[i].name = AllExtracted[j].name
          /\ AllExtracted[j] \in Range(result.grants)

\* C8 as stated: when grants with the same name are extracted from different
\* queries only the first-seen copy is kept; later duplicates are dropped
\* and none of their field values replace the first copy's.
C8_FirstSeenKept_Original ==
    ResearchReturned =>
        \A i \in 1..Len(result.grants) :
            LET name == result.grants[i].name
            IN  result.grants[i] = AllExtracted[FirstIndexOf(AllExtracted, name)]

\* C8 amended: when grants with the same name are extracted from different
\* queries only the last-seen copy is kept: the result holds one record of
\* that name, it comes from the last query that extracted the name, and the
\* copies of the earlier queries are dropped, not merged.
C8_LastSeenKept ==
    ResearchReturned =>
        \A name \in NamesOf(AllExtracted) :
            LET kept == SelectSeq(result.grants, LAMBDA g : g.name = name)
                qs == QueriesExtracting(name)
            IN  /\ Len(kept) = 1
                /\ \A q \in qs : q <= kept[1].description[1]
                /\ kept[1].description[1] \in qs

\* C8 witness: two different queries extracted the same name
C8_Witness ==
    /\ ResearchReturned
    /\ \E name \in NamesOf(AllExtracted) :
          Cardinality(QueriesExtracting(name)) > 1

\* C9: the visitedUrls of the ResearchResult contain no duplicate, every URL
\* in them was returned as a visited URL by some per-query extraction, and
\* every URL returned by a successful per-query extraction is in them.
C9_VisitedUrlsUniqueUnion ==
    ResearchReturned =>
        /\ \A i, j \in 1..Len(result.visitedUrls) :
              result.visitedUrls[i] = result.visitedUrls[j] => i = j
        /\ Range(result.visitedUrls) =
              UNION {Range(returned[k].visitedUrls) : k \in 1..Len(returned)}

\* C9 witness: two extractions returned the same URL
C9_Witness ==
    /\ ResearchReturned
    /\ Len(result.visitedUrls) = 1
    /\ Len(AllReturnedUrls) = 2

\* C10: for every numQueries a request can carry and every model response,
\* generateGrantQueries returns at most numQueries queries (none when
\* numQueries is below one), so the number of search calls of one request
\* never exceeds numQueries (5 when the request omits it).
C10_AtMostNumQueries ==
    status = 200 =>
        /\ Len(serpQueries) <= Max(numQueries, 0)
        /\ Len(CallsOf("search")) <= Max(numQueries, 0)

\* the extraction model calls among the events of a trace
ExtractCallsIn(tr) ==
    SelectSeq(tr, LAMBDA e : e.ev = "call" /\ e.msg = "extract")

\* C11: when every page result passed to processGrantResults has no text
\* content, it returns an empty grant list and issues no model call; an
\* extraction model call is issued only when at least one page has text.
C11_NoContentNoModelCall ==
    [][(pc = "extract" /\ pc' # "extract") =>
          LET noText == \A i \in 1..Len(searchResults) :
                            searchResults[i].markdown = 0
              called == Len(ExtractCallsIn(trace')) > Len(ExtractCallsIn(trace))
          IN  /\ noText =>
                   /\ ~called
                   /\ Len(returned') = Len(returned) + 1
                   /\ returned'[Len(returned')].grants = <<>>
              /\ called => ~noText]_vars

\* C11 witness: processGrantResults returned for a query whose pages had no
\* text, and no extraction call was made for that query
C11_Witness ==
    \E k \in 1..Len(returned) :
        /\ returned[k].grants = <<>>
        /\ \E i \in 1..Len(trace) :
              trace[i].msg = "ran" /\ trace[i].q = returned[k].q
        /\ \A i \in 1..Len(trace) :
              ~(trace[i].ev = "call" /\ trace[i].msg = "extract"
                /\ trace[i].q = returned[k].q)

C13_EarlyFailuresNoStream ==
    /\ [][(pc = "received" /\ ~req.parsed) =>
              (status' = 400 /\ body' = "Error processing request")]_vars
    /\ [][(/\ pc = "received"
           /\ req.parsed
           /\ ~(req.enableApiKeys /\ (~req.openaiKey \/ ~req.firecrawlKey))
           /\ ~req.modelCreated) =>
              (status' = 500 /\ body' = "Error creating model")]_vars
    /\ [](status \in {400, 500} =>
              /\ pc = "responded"
              /\ body # ""
              /\ trace = <<>>
              /\ serpQueries = <<>>
              /\ ~broken)

\* C13 witness: the keys were not asked for, createModel threw, and the
\* response is the 500 with nothing written and nothing called
C13_Witness ==
    /\ status = 500
    /\ pc = "responded"
    /\ req.parsed
    /\ ~req.enableApiKeys
    /\ ~req.modelCreated
    /\ trace = <<>>

\* the external calls of the request, issued and settled, in program order
CallEvents == SelectSeq(trace, LAMBDA e : e.ev \in {"start", "call"})

\* C14: within one request the pipeline steps are strictly ordered: query
\* generation completes before any search starts; the search of a query
\* completes before its extraction starts; the search of the next query
\* starts only after the search and the extraction of the query before it
\* have finished or thrown; synthesis starts only after the last query's
\* cycle has finished; and no two external calls are in flight at once.
C14_StepsStrictlyOrdered ==
    LET events == CallEvents
        calls == Calls
    IN  /\ \A i \in 1..Len(events) :
              IF events[i].ev = "start"
              THEN \/ i = Len(events)
                   \/ /\ events[i + 1].ev = "call"
                      /\ events[i + 1].msg = events[i].msg
                      /\ events[i + 1].q = events[i].q
              ELSE /\ i > 1
                   /\ events[i - 1].ev = "start"
        /\ \A i \in 1..Len(calls) :
              /\ (calls[i].msg = "queries") <=> (i = 1)
              /\ i > 1 => calls[1].ok
              /\ calls[i].msg = "search" =>
                    \/ calls[i - 1].msg = "queries"
                    \/ calls[i - 1].q < calls[i].q
              /\ calls[i].msg = "extract" =>
                    /\ calls[i - 1].msg = "search"
                    /\ calls[i - 1].q = calls[i].q
                    /\ calls[i - 1].ok
              /\ calls[i].msg = "report" =>
                    /\ i = Len(calls)
                    /\ \A k \in 1..Len(serpQueries) :
                          \E j \in 1..(i - 1) :
                              /\ calls[j].msg = "search"
                              /\ calls[j].q = serpQueries[k]

\* C14 witness: two queries, each searched and extracted, then synthesis
C14_Witness ==
    /\ Finished
    /\ Len(Calls) = 6
    /\ Calls[3].msg = "extract"
    /\ Calls[4].msg = "search"
    /\ Calls[5].msg = "extract"
    /\ Calls[6].msg = "report"

\* the frames request r's client receives
StreamOf(r) == conc.streams[r]

\* C15: for any interleaving of two concurrent requests, the result, the
\* progress frames and the terminal event of each request depend only on
\* that request's own queries and service responses: its result is the
\* aggregate of what its own extractions returned, every frame on its
\* stream was produced for it, and it gets at most one terminal frame; no
\* grant, URL or frame produced for one request shows up at the other.
C15_RequestsIsolated ==
    \A r \in RequestIds :
        LET ctl == conc.ctl[r]
            stream == StreamOf(r)
            terminal == SelectSeq(stream,
                            LAMBDA f : f.e.type \in {"done", "error"})
        IN  /\ \A i \in 1..Len(stream) : stream[i].r = r
            /\ Len(terminal) <= 1
            /\ ctl.pc = "done" => Len(terminal) = 1
            /\ ctl.pc \in {"report", "done"} =>
                  /\ ctl.result.grants =
                         uniqueGrants(Flatten(ctl.returned, "grants"))
                  /\ ctl.result.visitedUrls =
                         uniqueUrls(Flatten(ctl.returned, "visitedUrls"))
                  /\ \A i \in 1..Len(ctl.result.grants) :
                         ctl.result.grants[i].name = NameFor(r)
                  /\ \A i \in 1..Len(ctl.result.visitedUrls) :
                         ctl.result.visitedUrls[i] = UrlFor(r)

\* C15 witness: both requests extracted a grant and a URL while the other
\* was still running, and both have finished with a result of their own
C15_Witness ==
    /\ \A r \in RequestIds :
          /\ conc.ctl[r].pc = "done"
          /\ conc.ctl[r].result.grants # <<>>
          /\ conc.ctl[r].result.visitedUrls # <<>>
    /\ conc.streams[1][Len(conc.streams[1])].e.type = "done"
    /\ conc.streams[2][Len(conc.streams[2])].e.type = "done"

\* C16: the orchestrator starts query generation only for a valid request:
\* a request whose body has no description (query missing or empty) is
\* rejected by input validation and never reaches the generating-queries
\* state or any external call.
C16_NoDescriptionRejected ==
    [][(pc = "received" /\ ~req.hasQuery) =>
          /\ pc' = "responded"
          /\ status' # 200
          /\ trace' = <<>>]_vars

\* the template calls issued / settled and the synthesis call, by their
\* positions in the trace of the writeGrantReport call
TemplateStarts ==
    SelectSeq(tmpl.trace,
        LAMBDA e : e.ev = "start" /\ e.msg = "template")
TemplateCalls ==
    SelectSeq(tmpl.trace,
        LAMBDA e : e.ev = "call" /\ e.msg = "template")
TemplateFailed == \E i \in 1..Len(TemplateCalls) : ~TemplateCalls[i].ok
SynthesisStarts ==
    {i \in 1..Len(tmpl.trace) :
        tmpl.trace[i].ev = "start" /\ tmpl.trace[i].msg = "report"}
TemplateWrites == SelectSeq(tmpl.trace, LAMBDA e : e.ev = "write")

\* C17: the template variant of writeGrantReport issues exactly min(3,
\* number of grants) template calls, for the first grants in list order;
\* the synthesis call is issued only after every one of them has completed;
\* and if a template call fails no synthesis call is issued and the request
\* ends with an error event.
C17_TemplatesBeforeSynthesis ==
    tmpl.pc # "idle" =>
        /\ Len(TemplateStarts) = Min(3, Len(tmpl.grants))
        /\ \A i \in 1..Len(TemplateStarts) :
              TemplateStarts[i].q = tmpl.grants[i]
        /\ \A j \in SynthesisStarts :
              /\ Len(SelectSeq(SubSeq(tmpl.trace, 1, j - 1),
                        LAMBDA e : e.ev = "call" /\ e.msg = "template"
                                   /\ e.ok))
                    = Len(TemplateStarts)
              /\ tmpl.pending = {}
        /\ TemplateFailed =>
              /\ SynthesisStarts = {}
              /\ tmpl.pc = "done"
              /\ TemplateWrites # <<>>
              /\ TemplateWrites[Len(TemplateWrites)].type = "error"
              /\ \A i \in 1..Len(TemplateWrites) :
                    TemplateWrites[i].type # "done"

\* C17 witness: four grants, three template calls, all resolved, and the
\* synthesis issued after them
C17_Witness ==
    /\ Len(tmpl.grants) = 4
    /\ Len(TemplateCalls) = 3
    /\ ~TemplateFailed
    /\ SynthesisStarts # {}

\* the position of the last Sources heading of a report (0: none)
LastSourcesHeading(report) ==
    LET at == {i \in 1..Len(report) : report[i] = SourcesHeading}
    IN  IF at = {} THEN 0 ELSE CHOOSE i \in at : \A j \in at : j <= i

\* the URLs listed under the last Sources heading of a report
SourcesOf(report) ==
    LET items == SelectSeq(
                     SubSeq(report, LastSourcesHeading(report) + 1,
                            Len(report)),
                     LAMBDA l : l.kind = "item")
    IN  [i \in 1..Len(items) |-> items[i].text]

\* C18: whatever the model returns, the report string returned by the
\* template variant of writeGrantReport ends with a "## Sources" section
\* that lists every URL of the ResearchResult's visitedUrls exactly once,
\* in the same order, and lists no URL that is not in visitedUrls.
C18_SourcesSectionIsVisitedUrls ==
    tmpl.report # <<>> =>
        LET h == LastSourcesHeading(tmpl.report)
        IN  /\ h > 0
            /\ \A i \in (h + 1)..Len(tmpl.report) :
                  tmpl.report[i].kind \in {"item", "blank"}
            /\ SourcesOf(tmpl.report) = tmpl.visitedUrls

\* C18 witness: the model's markdown had a Sources section of its own with a
\* made-up URL, two URLs were visited, and the report was returned
C18_Witness ==
    /\ Len(tmpl.visitedUrls) = 2
    /\ \E i, j \in 1..Len(tmpl.report) :
          /\ i < j
          /\ j < LastSourcesHeading(tmpl.report)
          /\ tmpl.report[i] = SourcesHeading
          /\ tmpl.report[j] = Line("item", "made-up")

\* C19: if the query-generation model call throws, no retry is made, no
\* search or extraction call is issued, the failure propagates out of
\* researchAgricultureGrants to the orchestrator, and the stream ends with
\* an error event and no done event.
C19_GenerationFailureTerminal ==
    GenerationThrew =>
        /\ Finished
        /\ Len(CallEvents) = 2
        /\ Len(CallsOf("queries")) = 1
        /\ CallsOf("search") = <<>>
        /\ CallsOf("extract") = <<>>
        /\ CallsOf("report") = <<>>
        /\ serpQueries = <<>>
        /\ result = NoResult
        /\ Len(WritesOf("error")) = 1
        /\ Writes[Len(Writes)].type = "error"
        /\ WritesOf("done") = <<>>

\* C19 witness: the query-generation call threw and the error frame reached
\* the client
C19_Witness ==
    /\ GenerationThrew
    /\ Finished
    /\ Writes[Len(Writes)].type = "error"
    /\ Writes[Len(Writes)].ok

\* what one step appended to the trace
Appended == SubSeq(trace', Len(trace) + 1, Len(trace'))
\* the progress notifications processGrantResults emitted in one step: the
\* content-count and the grant-count messages (the failure message of a
\* query is emitted by the catch block of the caller)
ProcessNotifications ==
    LET sent == SelectSeq(Appended,
                    LAMBDA e : e.ev = "write" /\ e.msg \in {"ran", "generated"})
    IN  [i \in 1..Len(sent) |-> sent[i].msg]
\* the extraction call of one step resolved
ExtractionResolved ==
    \E i \in 1..Len(Appended) :
        /\ Appended[i].ev = "call"
        /\ Appended[i].msg = "extract"
        /\ Appended[i].ok

\* C20 as stated: every invocation of processGrantResults emits exactly two
\* progress notifications, one reporting the number of content items fed to
\* the model and one reporting the number of grants extracted.
C20_TwoNotifications_Original ==
    [][(pc = "extract" /\ pc' # "extract") =>
          ProcessNotifications = <<"ran", "generated">>]_vars

\* C20 amended: every invocation of processGrantResults emits the
\* notification of the number of content items, first and once; it emits
\* the notification of the number of grants extracted, once and after it,
\* exactly when some page had text and the extraction call resolved. An
\* invocation that short-circuits on empty content or whose extraction call
\* throws emits the first notification only.
C20_TwoNotificationsWhenExtracted ==
    [][(pc = "extract" /\ pc' # "extract") =>
          LET someText == \E i \in 1..Len(searchResults) :
                              searchResults[i].markdown # 0
          IN  /\ ExtractionResolved => someText
              /\ ProcessNotifications =
                    IF someText /\ ExtractionResolved
                    THEN <<"ran", "generated">>
                    ELSE <<"ran">>]_vars

\* C20 witness: of two invocations one short-circuited on empty content and
\* the other extracted, so three notifications were emitted in all
C20_Witness ==
    /\ Len(returned) = 2
    /\ returned[1].grants = <<>>
    /\ returned[2].grants # <<>>
    /\ Len(SelectSeq(Writes, LAMBDA e : e.msg = "ran")) = 2
    /\ Len(SelectSeq(Writes, LAMBDA e : e.msg = "generated")) = 1

\* C21: the visited-URL list returned by processGrantResults for a query is
\* the list of all non-null URLs of that query's page results, whether or
\* not a grant was extracted and whichever pages carried text.
C21_VisitedUrlsAreAllPageUrls ==
    [][(pc = "extract" /\ Len(returned') > Len(returned)) =>
          LET withUrl == SelectSeq(searchResults,
                             LAMBDA p : p.url # NullUrl)
          IN  returned'[Len(returned')].visitedUrls =
                  [i \in 1..Len(withUrl) |-> withUrl[i].url]]_vars

\* the external calls one step issued, by kind
CallsAppended(msg) ==
    SelectSeq(Appended, LAMBDA e : e.ev = "start" /\ e.msg = msg)

\* C22: a progress notification that cannot be delivered (the write to the
\* stream rejects) never changes the control flow of the pipeline: the
\* onProgress callback resolves for its caller, and query generation, each
\* search, each extraction and the synthesis are called as they are when
\* every delivery succeeds, whether or not the stream is broken.
C22_ProgressFailureHarmless ==
    /\ [](\A i \in 1..Len(trace) :
              (trace[i].ev = "write" /\ trace[i].type = "progress") =>
                  trace[i].ok)
    /\ [][(pc = "generate" /\ pc' # "generate") =>
              Len(CallsAppended("queries")) = 1]_vars
    /\ [][(pc = "loop" /\ idx <= Len(serpQueries) /\ trace' # trace) =>
              /\ Len(CallsAppended("search")) = 1
              /\ CallsAppended("search")[1].q = serpQueries[idx]]_vars
    /\ [][(pc = "extract" /\ pc' # "extract") =>
              (Len(CallsAppended("extract")) =
                  IF \E i \in 1..Len(searchResults) :
                         searchResults[i].markdown # 0
                  THEN 1 ELSE 0)]_vars
    /\ [][(pc = "report" /\ pc' = "done") =>
              (Len(CallsAppended("report")) =
                  IF Len(result.grants) > 0 THEN 1 ELSE 0)]_vars

\* C22 witness: the stream is broken, so the notification that precedes
\* the synthesis was not delivered, and two queries were searched and
\* extracted and the synthesis was called all the same
C22_Witness ==
    /\ broken
    /\ Finished
    /\ Len(CallsOf("search")) = 2
    /\ Len(CallsOf("extract")) = 2
    /\ Len(CallsOf("report")) = 1

\* the progress message that announces a call and the one that reports its
\* result
AnnouncedBy(msg) ==
    CASE msg = "queries" -> "generating"
      [] msg = "search" -> "researching"
      [] msg = "extract" -> "ran"
      [] msg = "report" -> "report"
ReportedBy(msg) ==
    CASE msg = "queries" -> "created"
      [] msg = "search" -> "found"
      [] msg = "extract" -> "generated"
      [] msg = "report" -> "report"

\* C23: each progress notification is written to the response stream when
\* its milestone occurs: the streaming response has been returned before
\* the pipeline writes or calls anything further, and the step that follows
\* a notification starts only after the frame has been written, so frames
\* are in the stream in milestone order and none is held back to the end.
C23_ProgressWrittenAtMilestone ==
    /\ trace # <<>> => status = 200
    /\ \A i \in 1..Len(trace) :
          /\ trace[i].ev = "start" =>
                /\ i > 1
                /\ trace[i - 1].ev = "write"
                /\ trace[i - 1].type = "progress"
                /\ trace[i - 1].msg = AnnouncedBy(trace[i].msg)
          /\ (trace[i].ev = "call" /\ trace[i].ok
                  /\ trace[i].msg # "report") =>
                /\ i < Len(trace)
                /\ trace[i + 1].ev = "write"
                /\ trace[i + 1].type = "progress"
                /\ trace[i + 1].msg = ReportedBy(trace[i].msg)

\* C23 witness: the pipeline is in the middle of its second query, the
\* response was returned, and the frames of the first query are written
C23_Witness ==
    /\ status = 200
    /\ pc = "extract"
    /\ idx = 2
    /\ \E i \in 1..Len(Writes) : Writes[i].msg = "generated"
    /\ Writes[Len(Writes)].msg = "found"
    /\ Writes[Len(Writes)].q = serpQueries[2]

\* C24: the client issues a research request only when a stored query
\* exists: the results page redirects to the form and sends no POST when
\* the local-storage key is absent; the form writes the key (query,
\* farmType, location, timestamp) before navigating to the results view;
\* and a submission with an empty description shows an error, writes
\* nothing to local storage, does not navigate and leaves the form
\* interactive.
C24_RequestOnlyForStoredQuery ==
    /\ [][client'.posts # client.posts =>
              (client.storage # <<>> /\ client.view = "results")]_vars
    /\ [][(client.run = "mount" /\ client.storage = <<>>) =>
              /\ client'.view = "form"
              /\ client'.posts = client.posts]_vars
    /\ [][(client.view = "form" /\ client'.view = "results"
              /\ client'.last = "submit") =>
              /\ Len(client'.storage) = 1
              /\ client'.storage[1].query = client.formData.query
              /\ client'.storage[1].farmType = client.formData.farmType
              /\ client'.storage[1].location = client.formData.location
              /\ client'.storage[1].query # ""]_vars
    /\ [][(client.view = "form" /\ client.formData.query = ""
              /\ client'.last = "submit") =>
              /\ client'.toast = "Missing information"
              /\ client'.storage = client.storage
              /\ client'.view = "form"
              /\ ~client'.formLoading]_vars

\* C24 witness: an empty submission was refused, and after a submission
\* with a description the results page sent its one request for the stored
\* query
C24_Witness ==
    /\ client.posts = 1
    /\ client.toast = "Missing information"
    /\ client.storage # <<>>
    /\ client.storage[1].query = "farm"
    /\ client.run = "fetching"

\* C25: page text whose length is at or below the 25,000 budget is
\* submitted to the extraction model unmodified, page text longer than the
\* budget is submitted as exactly the retained window of at most 25,000
\* characters, and pages with no text are not submitted at all.
C25_ContentWithinBudget ==
    extractor.pc = "returned" =>
        LET texts == SelectSeq(extractor.markdowns, LAMBDA t : t.size > 0)
            sent == extractor.submitted
        IN  /\ Len(sent) = Len(texts)
            /\ extractor.called <=> texts # <<>>
            /\ \A i \in 1..Len(texts) :
                 /\ texts[i].size <= 25000 => sent[i] = texts[i]
                 /\ texts[i].size > 25000 =>
                      /\ sent[i].size <= 25000
                      /\ sent[i].size + sent[i].cut = texts[i].size

\* C25 witness: a page without text, a page at the budget and a page over
\* the budget went in; two contents were submitted, the second one cut
C25_Witness ==
    /\ extractor.pc = "returned"
    /\ Len(extractor.markdowns) = 3
    /\ extractor.markdowns[1].size = 0
    /\ extractor.markdowns[2].size = 25000
    /\ extractor.markdowns[3].size = 25001
    /\ Len(extractor.submitted) = 2
    /\ extractor.submitted[2].cut = 1

\* C26: the grant list displayed by the structured results page is a
\* permutation of the report's grantOpportunities ordered by
\* eligibilityCount descending, ties broken by relevanceScore descending;
\* the report's own grantOpportunities array is left unchanged by the sort.
C26_SortedGrantsOrdered ==
    /\ [](sorter.pc = "sorted" =>
            LET shown == sorter.sortedGrants
                given == sorter.grantOpportunities
            IN  /\ Len(shown) = Len(given)
                /\ {shown[i] : i \in 1..Len(shown)} =
                       {given[i] : i \in 1..Len(given)}
                /\ \A i \in 1..(Len(shown) - 1) :
                     \/ shown[i].eligibilityCount >
                            shown[i + 1].eligibilityCount
                     \/ /\ shown[i].eligibilityCount =
                               shown[i + 1].eligibilityCount
                        /\ shown[i].relevanceScore >=
                               shown[i + 1].relevanceScore)
    /\ [][sorter.pc = "report" =>
              sorter'.grantOpportunities = sorter.grantOpportunities]_vars

\* C26 witness: three grants were sorted into another order, one place
\* decided by the count and one by the score
C26_Witness ==
    /\ sorter.pc = "sorted"
    /\ Len(sorter.sortedGrants) = 3
    /\ sorter.sortedGrants # sorter.grantOpportunities
    /\ sorter.sortedGrants[1].eligibilityCount =
           sorter.sortedGrants[2].eligibilityCount
    /\ sorter.sortedGrants[1].relevanceScore >
           sorter.sortedGrants[2].relevanceScore
    /\ sorter.sortedGrants[2].eligibilityCount >
           sorter.sortedGrants[3].eligibilityCount
    /\ sorter.sortedGrants[1].name = 3

\* C27: the grants of a ResearchResult are ordered by the first occurrence
\* of each name in the concatenated per-query extraction order: a duplicate
\* name does not move the grant to a later position even though its stored
\* value is replaced.
C27_OrderedByFirstOccurrence ==
    aggregator.pc = "returned" =>
        LET all == aggregator.allGrants
            kept == aggregator.grants
        IN  /\ NamesOf(kept) = NamesOf(all)
            /\ \A i, j \in 1..Len(kept) :
                 i < j => FirstIndexOf(all, kept[i].name) <
                              FirstIndexOf(all, kept[j].name)
            /\ \A i \in 1..Len(kept) :
                 kept[i] = all[LastIndexOf(all, kept[i].name)]

\* C27 witness: A, B, A were extracted; A stays in front of B and holds the
\* value of its second copy
C27_Witness ==
    /\ aggregator.pc = "returned"
    /\ Len(aggregator.allGrants) = 3
    /\ aggregator.allGrants[1].name = "A"
    /\ aggregator.allGrants[2].name = "B"
    /\ aggregator.allGrants[3].name = "A"
    /\ Len(aggregator.grants) = 2
    /\ aggregator.grants[1] = aggregator.allGrants[3]
    /\ aggregator.grants[2] = aggregator.allGrants[2]

\* the frames the results page has handled, in the order it handled them
AllFrames == [i \in 1..Len(client.frames) |-> i]
StreamRead == client.run = "ended" /\ client.last = "read"

\* C28: for every way the server's byte stream can be split into read
\* chunks, the results page processes every event frame the server wrote: a
\* progress, done or error frame is never lost because a chunk boundary
\* falls inside it or because several frames arrive in one chunk.
C28_EveryFrameProcessed ==
    StreamRead => client.processed = AllFrames

\* a stream of two frames was read to its end in chunks that each held
\* whole frames, or one chunk that held both, and both frames were handled
C28_WholeFramesProcessed ==
    /\ StreamRead
    /\ Len(client.frames) = 2
    /\ client.processed = <<1, 2>>

\* runGrantResearch has run to its end: through the catch block, or out of
\* the reader loop when the reader reported done
RunEnded == client.run = "ended"

\* C29: once the response stream has ended (the reader reports done) or the
\* fetch has failed, the results page is no longer in the loading state:
\* every run of runGrantResearch sets isLoading to false.
C29_LoadingEnds ==
    RunEnded => ~client.isLoading

\* C30: when the stream delivers the zero-grants done event (the report is
\* the fixed "No grants found that match your criteria." string), the
\* results page ends in its "No Results" view; the structured report view
\* is entered only when the report is a structured Report object.
C30_NoGrantsShowsNoResults ==
    (StreamRead /\ client.processed = AllFrames) =>
        /\ client.report = NoGrantsReport => RenderBranch(client) = "noResults"
        /\ RenderBranch(client) = "report" => client.report = "structured"

====
